---- MODULE Spec2Model ----
(***************************************************************************)
(* The question-generation pipeline of o1-recall                            *)
(* (backend/app/routers/generate.py) over its relational store, with the   *)
(* process start-up (main.py, db.py, index.py), the answer endpoint        *)
(* (routers/questions.py) and the streak endpoint (routers/streak.py).     *)
(*                                                                         *)
(* A Python str is a sequence of atoms; the atom WS is one whitespace      *)
(* character and every other atom is a run of non-whitespace characters.   *)
(* None, "" and a missing key are all the empty sequence: the code only    *)
(* ever tests these values with `x or y`, which treats them alike.         *)
(***************************************************************************)
EXTENDS Integers, Sequences, FiniteSets, TLC

VARIABLES settings, req, topics, sub_topics, questions, choices

\* process: how the application was started and whether it serves requests yet
\* _pool: db._pool, "None" or "open"
\* today: the calendar day, counted from 1
\* user_answers: the user_answers table; answer, streak: the request of each of
\* the two endpoints that is in flight or was served last
VARIABLES process, _pool, today, user_answers, answer, streak

\* the state the generation handlers never write
service == <<process, _pool, today, user_answers, answer, streak>>

vars == <<settings, req, topics, sub_topics, questions, choices, service>>

-----------------------------------------------------------------------------
(* Bounds of the model *)

\* number of request slots; requests of different slots interleave freely
MaxReqs == 2
\* longest backend array drawn from ItemPool (the over-long array is separate)
MaxItems == 2
\* a link batch has 0..MAX_LINKS+MaxExtraLinks entries
MaxExtraLinks == 1

\* calendar days the clock runs through, and answers the table may hold
MaxDays == 2

MaxAnswers == 5

Reqs == 1..MaxReqs

-----------------------------------------------------------------------------
(* Strings *)

WS == " "

RECURSIVE LStrip(_)
LStrip(s) == IF s # <<>> /\ Head(s) = WS THEN LStrip(Tail(s)) ELSE s

RECURSIVE RStrip(_)
RStrip(s) == IF s # <<>> /\ s[Len(s)] = WS THEN RStrip(SubSeq(s, 1, Len(s) - 1)) ELSE s

\* str.strip()
Strip(s) == RStrip(LStrip(s))

\* truthiness of a str-or-None
Truthy(s) == s # <<>>

\* Python `a or b` on str-or-None operands
Or(a, b) == IF Truthy(a) THEN a ELSE b

\* str.lower() on the size tokens the model submits
Lower(s) == CASE s = "TINY" -> "tiny" [] s = "Large" -> "large" [] OTHER -> s

General == <<"General">>
Misc == <<"Misc">>

-----------------------------------------------------------------------------
(* Program constants *)

SIZE_TO_COUNT == [tiny |-> 5, small |-> 25, large |-> 50]

DEFAULT_COUNT == 25

MAX_LINKS == 5

THINKING_PRIMARY == 128

THINKING_SECONDARY == 0

\* mutant: a size token that is not in the table gets the smallest count
SizeCount_unknown_is_smallest(size) ==
    IF Lower(size) \in DOMAIN SIZE_TO_COUNT THEN SIZE_TO_COUNT[Lower(size)] ELSE SIZE_TO_COUNT.tiny

\* SIZE_TO_COUNT.get(size.lower(), 25)
SizeCount(size) ==
    IF Lower(size) \in DOMAIN SIZE_TO_COUNT THEN SIZE_TO_COUNT[Lower(size)] ELSE DEFAULT_COUNT

-----------------------------------------------------------------------------
(* Configuration: config.py *)

KeyOne == <<"k1">>
KeyTwo == <<"k2">>
KeyLegacy == <<"k9">>

\* process environments: GENAI_API_KEYS already cut at its commas
Envs ==
    { [GENAI_API_KEYS |-> <<>>, GENAI_API_KEY |-> <<>>],
      [GENAI_API_KEYS |-> <<KeyOne, <<WS>>, <<WS>> \o KeyTwo>>, GENAI_API_KEY |-> <<>>],
      [GENAI_API_KEYS |-> <<>>, GENAI_API_KEY |-> KeyLegacy],
      [GENAI_API_KEYS |-> <<>>, GENAI_API_KEY |-> <<WS>>] }

RECURSIVE StripAll(_)
\* [k.strip() for k in raw.split(",") if k.strip()]
StripAll(raw) ==
    IF raw = <<>> THEN <<>>
    ELSE IF Truthy(Strip(Head(raw))) THEN <<Strip(Head(raw))>> \o StripAll(Tail(raw))
         ELSE StripAll(Tail(raw))

load_settings(env) ==
    LET api_keys == StripAll(env.GENAI_API_KEYS)
        single_key == Strip(env.GENAI_API_KEY)
    IN  [ GENAI_API_KEY  |-> env.GENAI_API_KEY,
          GENAI_API_KEYS |-> IF api_keys = <<>> /\ Truthy(single_key)
                             THEN <<single_key>> ELSE api_keys,
          GEN_AI_MODEL_1 |-> "model-1",
          GEN_AI_MODEL_2 |-> "model-2" ]

\* the keys random.choice(keys) may return, or the legacy key when the list is empty
ChooseApiKey(keys) ==
    IF keys # <<>> THEN {keys[i] : i \in DOMAIN keys} ELSE {settings.GENAI_API_KEY}

\* the two guards every entry point runs first; TRUE when the request must fail
CredentialMissing(api_key) ==
    \/ (settings.GENAI_API_KEYS = <<>> /\ ~Truthy(settings.GENAI_API_KEY))
    \/ ~Truthy(api_key)

-----------------------------------------------------------------------------
(* Generated items and backend payloads *)

Item(q, t, st, ch, ci) ==
    [ obj |-> TRUE, question_text |-> q, explanation |-> "why " \o q, image_url |-> "",
      topic |-> t, sub_topic |-> st, choices |-> ch, correct_index |-> ci ]

\* a JSON value that is not an object (a number, a string, null)
ScalarItem ==
    [ obj |-> FALSE, question_text |-> "", explanation |-> "", image_url |-> "",
      topic |-> <<>>, sub_topic |-> <<>>, choices |-> <<>>, correct_index |-> <<>> ]

ItemA == Item("qa", <<>>, <<>>, <<"a1", "a2">>, <<1>>)
ItemB == Item("qb", <<WS>>, <<WS, "Cells">>, <<"b1", "b2">>, <<2>>)
ItemC == Item("qc", <<"History", WS>>, <<WS>>, <<"c1">>, <<>>)
ItemD == Item("qd", <<"Bio">>, <<"Dates">>, <<>>, <<-1>>)

ItemE == Item("qe", <<"Bio", WS>>, <<WS, "Dates">>, <<"e1">>, <<0>>)

ItemPool == {ItemA, ItemB, ItemC, ItemD, ScalarItem}

\* an item with nothing but its text, for the over-long answer
BareItem(i) == Item("q" \o ToString(i), <<>>, <<>>, <<>>, <<0>>)

\* one item more than the smallest requested count; only the last item names a topic
LongArray ==
    [i \in 1..(SIZE_TO_COUNT.tiny + 1) |->
        IF i <= SIZE_TO_COUNT.tiny THEN BareItem(i) ELSE Item("qlate", <<"Late">>, <<>>, <<>>, <<0>>)]

ItemSeqs(n) == UNION {[1..k -> ItemPool] : k \in 0..n}

Array(items) == [kind |-> "array", value |-> items]

\* response.text of a successful generation call: nothing, text that is not JSON,
\* a JSON scalar, a single JSON object, or a JSON array
OddPayloads ==
    { [kind |-> "empty", value |-> <<>>],
      [kind |-> "garbage", value |-> <<>>],
      [kind |-> "scalar", value |-> ScalarItem],
      [kind |-> "object", value |-> ItemC] }

Payloads == OddPayloads \cup {Array(s) : s \in ItemSeqs(MaxItems) \cup {LongArray}}

\* `response.text or "[]"`
TextOrEmptyArray(text) ==
    IF text.kind = "empty" THEN [kind |-> "array", value |-> <<>>] ELSE text

\* mutant: text that does not parse is read as an empty array
JsonLoads_lenient(text) ==
    IF text.kind \in {"empty", "garbage"} THEN [ok |-> TRUE, is_list |-> TRUE, value |-> <<>>]
    ELSE [ok |-> TRUE, is_list |-> text.kind = "array", value |-> text.value]

\* json.loads: ok is FALSE when it raises JSONDecodeError
JsonLoads(text) ==
    [ok |-> text.kind \notin {"empty", "garbage"}, is_list |-> text.kind = "array", value |-> text.value]

\* lines 391-396: a parsed value that is not a list is wrapped
WrapParsed(parsed) == IF parsed.is_list THEN parsed.value ELSE <<parsed.value>>

\* mutant: the answer is never cut to the requested count
Truncate_never(data, requested_count) == data

\* lines 399-401: count = max(0, int(requested_count or 0)); data[:count] when count > 0
Truncate(data, requested_count) ==
    LET count == IF requested_count > 0 THEN requested_count ELSE 0
    IN  IF count > 0 /\ Len(data) > count THEN SubSeq(data, 1, count) ELSE data

RECURSIVE ScanTopic_unstripped(_, _)
\* mutant: the item topic is tested and adopted as it comes, without .strip()
ScanTopic_unstripped(data, i) ==
    IF i > Len(data) THEN [raised |-> FALSE, topic |-> <<>>]
    ELSE IF ~data[i].obj THEN [raised |-> TRUE, topic |-> <<>>]
    ELSE IF Truthy(data[i].topic) THEN [raised |-> FALSE, topic |-> data[i].topic]
    ELSE ScanTopic_unstripped(data, i + 1)

RECURSIVE ScanTopic(_, _)
\* lines 408-412: the first item topic that is non-empty once stripped;
\* raised is TRUE when an item without .get is met before one is found
ScanTopic(data, i) ==
    IF i > Len(data) THEN [raised |-> FALSE, topic |-> <<>>]
    ELSE IF ~data[i].obj THEN [raised |-> TRUE, topic |-> <<>>]
    ELSE LET candidate == Strip(Or(data[i].topic, <<>>))
         IN  IF Truthy(candidate) THEN [raised |-> FALSE, topic |-> candidate]
             ELSE ScanTopic(data, i + 1)

\* mutant: an item topic wins over the caller's topic
DocumentTopic_item_first(topic_name, data) ==
    LET found == ScanTopic_unstripped(data, 1)
    IN  IF found.raised THEN found
        ELSE [raised |-> FALSE, topic |-> Or(Or(Strip(found.topic), topic_name), <<"General">>)]

\* lines 404-414 with unify_topic = True
DocumentTopic(topic_name, data) ==
    IF Truthy(topic_name) THEN [raised |-> FALSE, topic |-> topic_name]
    ELSE LET found == ScanTopic(data, 1)
         IN  IF found.raised THEN found
             ELSE [raised |-> FALSE, topic |-> Or(found.topic, General)]

\* mutant: the item's sub-topic wins over the caller's
UseSubTopic_item_first(sub_topic_name, item) == Or(Or(item.sub_topic, sub_topic_name), <<"Misc">>)

\* line 421
UseSubTopic(sub_topic_name, item) == Or(Or(sub_topic_name, item.sub_topic), Misc)

\* line 449: int(item.get("correct_index", 0))
CorrectIndex(item) == IF item.correct_index = <<>> THEN 0 ELSE item.correct_index[1]

\* mutant: positions counted from 1
IsCorrect_one_based(idx, correct_index) == idx + 1 = correct_index

\* line 458: enumerate() counts from 0
IsCorrect(idx, correct_index) == idx = correct_index

-----------------------------------------------------------------------------
(* Sources: links, PDF bytes, raw text *)

YOUTUBE_HOSTS == {"youtube.com", "www.youtube.com", "youtu.be", "m.youtube.com"}

\* a URL is <<host, path>>, possibly with whitespace around it
UrlVideo == <<"youtu.be", "/v1">>
UrlPdf == <<"example.com", "/a.pdf">>
UrlPage == <<"example.com", "/page">>
UrlGone == <<"example.com", "/gone">>
UrlDown == <<"down.example", "/x">>
UrlImage == <<"example.com", "/pic.png">>
UrlLookalike == <<"notyoutube.com", "/page">>

\* urlparse(url).hostname, lower-cased
Hostname(url) == IF Strip(url) = <<>> THEN "" ELSE Strip(url)[1]

\* Python `h in host` on strings: h occurs in host as a substring
Contains(host, h) ==
    \E i \in 1..Len(host) : \E j \in i..Len(host) : SubSeq(host, i, j) = h

\* any(h in host for h in YOUTUBE_HOSTS)
detect_youtube(url) ==
    \E h \in YOUTUBE_HOSTS : Contains(Hostname(url), h)

\* what the web answers to GET url: a transport failure, or a status and a content-type
HttpGet(url) ==
    CASE Strip(url) = UrlPdf   -> [failed |-> FALSE, status |-> 200, content_type |-> <<"application/octet-stream">>]
      [] Strip(url) = UrlPage  -> [failed |-> FALSE, status |-> 200, content_type |-> <<"Text/HTML", ";", "charset=utf-8">>]
      [] Strip(url) = UrlLookalike -> [failed |-> FALSE, status |-> 200, content_type |-> <<"text/plain">>]
      [] Strip(url) = UrlImage -> [failed |-> FALSE, status |-> 200, content_type |-> <<"image/png">>]
      [] Strip(url) = UrlGone  -> [failed |-> FALSE, status |-> 404, content_type |-> <<>>]
      [] OTHER                 -> [failed |-> TRUE, status |-> 0, content_type |-> <<>>]

\* (content_type_header or "").split(";")[0].lower()
HeaderMime(content_type) ==
    IF content_type = <<>> THEN ""
    ELSE CASE content_type[1] = "Text/HTML" -> "text/html" [] OTHER -> content_type[1]

\* lower_url.endswith(".pdf")
EndsWithPdf(url) == url # <<>> /\ url[Len(url)] \in {"/a.pdf"}

_infer_mime_type(url, content_type) ==
    LET mime_type == HeaderMime(content_type)
    IN  IF mime_type = "" \/ mime_type = "application/octet-stream"
        THEN IF EndsWithPdf(url) THEN "application/pdf" ELSE "text/html"
        ELSE mime_type

SUPPORTED_MIME == {"application/pdf", "text/html", "text/plain"}

Part(kind, uri, mime, n) == [kind |-> kind, uri |-> uri, mime |-> mime, n |-> n]

\* build_generation_prompt(count): the text depends on count alone
build_generation_prompt(count) == Part("prompt", <<>>, "", count)

\* the urls of a batch in submission order, cycling over the fetchable sources
GoodUrl(i) == CASE i % 3 = 1 -> UrlPdf [] i % 3 = 2 -> UrlVideo [] OTHER -> UrlPage

\* caller-supplied link batches
Batches ==
    {[i \in 1..n |-> GoodUrl(i)] : n \in 0..(MAX_LINKS + MaxExtraLinks)}
    \cup {[i \in 1..n |-> IF i = 2 THEN <<WS>> ELSE <<WS>> \o GoodUrl(i)] : n \in 2..(MAX_LINKS + MaxExtraLinks)}
    \cup {<<<<>>>>, <<UrlPage, UrlGone, UrlPdf>>, <<UrlVideo, UrlImage>>, <<UrlDown>>}

\* caller-supplied single links
Links == {UrlVideo, UrlPdf, UrlPage, UrlGone, UrlDown, UrlImage, UrlLookalike}

\* caller-supplied raw texts
Texts == {<<>>, <<WS>>, <<WS, "text", WS>>}

RECURSIVE NormalizeUrls_keeping_blanks(_)
\* mutant: entries are stripped but blank ones are kept
NormalizeUrls_keeping_blanks(urls) ==
    IF urls = <<>> THEN <<>> ELSE <<Strip(Head(urls))>> \o NormalizeUrls_keeping_blanks(Tail(urls))

\* [u.strip() for u in urls if (u or "").strip()]
NormalizeUrls(urls) == StripAll(urls)

Sizes == {"tiny", "TINY", "small", "large", "huge"}

\* caller-supplied topic and sub-topic form fields (<<>>: not supplied)
CallerTopics == {<<>>, <<WS, "Bio">>, <<WS>>}

CallerSubTopics == {<<>>, <<"Cells", WS>>}

-----------------------------------------------------------------------------
(* Generation backend *)

NoExc == [cls |-> "", code |-> 0, status_code |-> 0, unavailable |-> FALSE]

NoText == [kind |-> "none", value |-> <<>>]

\* exceptions generate_content may raise; unavailable: "UNAVAILABLE" occurs in str(exc)
Excs ==
    { [cls |-> "ServerError", code |-> 503, status_code |-> 0, unavailable |-> TRUE],
      [cls |-> "ServerError", code |-> 500, status_code |-> 0, unavailable |-> TRUE],
      [cls |-> "ServerError", code |-> 500, status_code |-> 0, unavailable |-> FALSE],
      [cls |-> "ClientError", code |-> 429, status_code |-> 0, unavailable |-> FALSE],
      [cls |-> "ClientError", code |-> 400, status_code |-> 0, unavailable |-> TRUE] }

\* mutant: every ServerError counts as an overload
IsOverloaded_any_server_error(exc) == exc.cls = "ServerError"

\* lines 234-237: except ServerError; code == 503 or "UNAVAILABLE" in str(exc)
IsOverloaded(exc) ==
    LET code == IF exc.code # 0 THEN exc.code ELSE exc.status_code
    IN  exc.cls = "ServerError" /\ (code = 503 \/ exc.unavailable)

\* what one generate_content call does: it returns a text or raises
GenOutcomes(payloads, excs) ==
    {[ok |-> TRUE, text |-> p, exc |-> NoExc] : p \in payloads}
    \cup {[ok |-> FALSE, text |-> NoText, exc |-> e] : e \in excs}

-----------------------------------------------------------------------------
(* One request: the handler's arguments, its locals, and where it stands *)

NoResult == [status |-> "", requested |-> 0, created |-> 0, topic |-> <<>>]

\* pc: where the handler stands ("idle": not yet submitted; "fetch", "gen1", "gen2",
\*     "topic", "sub_topic", "question", "choice": about to make that call; "done":
\*     returned result; "failed": raised error)
\* entry .. sub_topic: the entry point and its form fields; api_key .. created: locals
\* todo: the urls still to resolve; cidx: the position enumerate() has reached
\* history, read by the properties only: fetched (GETs issued), uploads (files.upload
\*     calls), calls (generate_content calls with their outcome), qids (ids of the
\*     questions inserted, in item order), rows (rows inserted in any table)
IdleReq ==
    [ pc |-> "idle", entry |-> "", urls |-> <<>>, text |-> <<>>, size |-> "",
      topic |-> <<>>, sub_topic |-> <<>>, api_key |-> <<>>, count |-> 0,
      todo |-> <<>>, parts |-> <<>>, fetched |-> 0, uploads |-> 0, calls |-> <<>>,
      response_text |-> NoText, data |-> <<>>, document_topic |-> <<>>,
      idx |-> 0, use_topic |-> <<>>, use_sub_topic |-> <<>>,
      topic_id |-> 0, sub_topic_id |-> 0, qid |-> 0, cidx |-> 0, created |-> 0,
      qids |-> <<>>, rows |-> 0, result |-> NoResult, error |-> "" ]

\* the request ends with an exception (HTTPException detail or exception class)
Fail(q, detail) == [q EXCEPT !.pc = "failed", !.error = detail]

\* head of `for item in data` (line 417) down to the topic upsert, or the return (line 462)
LoopHead(q) ==
    IF q.idx > Len(q.data)
    THEN [q EXCEPT !.pc = "done",
                   !.result = [ status |-> "ok", requested |-> q.count, created |-> q.created,
                                topic |-> Or(Or(q.document_topic, q.topic), General) ]]
    ELSE LET item == q.data[q.idx]
         IN  IF ~Truthy(q.sub_topic) /\ ~item.obj
             THEN Fail(q, "AttributeError")
             ELSE [q EXCEPT !.pc = "topic",
                            !.use_topic = q.document_topic,
                            !.use_sub_topic = UseSubTopic(q.sub_topic, item)]

\* the item is finished: created += 1 and on to the next one
ItemDone(q) == LoopHead([q EXCEPT !.created = q.created + 1, !.idx = q.idx + 1])

\* _persist_generated_questions down to its first storage call (lines 387-422)
PersistStart(q) ==
    LET parsed == JsonLoads(q.response_text)
        data == Truncate(WrapParsed(parsed), q.count)
        doc == DocumentTopic(q.topic, data)
    IN  IF ~parsed.ok THEN Fail(q, "JSONDecodeError")
        ELSE IF doc.raised THEN Fail([q EXCEPT !.data = data], "AttributeError")
        ELSE LoopHead([q EXCEPT !.data = data, !.document_topic = doc.topic,
                                !.created = 0, !.idx = 1])

\* a generation call returned: `response.text or "[]"`, then persist
AfterGenerate(q, text) == PersistStart([q EXCEPT !.response_text = TextOrEmptyArray(text)])

\* the response_schema every generate_content call declares
MCQ_ARRAY_SCHEMA ==
    [ type |-> "ARRAY", items_type |-> "OBJECT",
      required |-> {"question_text", "choices", "correct_index"},
      properties |-> {"question_text", "explanation", "image_url", "choices",
                      "correct_index", "topic", "sub_topic"} ]

Call(role, q, out) ==
    [ role |-> role, response_schema |-> MCQ_ARRAY_SCHEMA,
      model |-> IF role = "primary" THEN settings.GEN_AI_MODEL_1 ELSE settings.GEN_AI_MODEL_2,
      thinking_budget |-> IF role = "primary" THEN THINKING_PRIMARY ELSE THINKING_SECONDARY,
      contents |-> q.parts, ok |-> out.ok, text |-> out.text, exc |-> out.exc ]

\* the handler's common opening: credential guards, client, count
Open(entry, size, topic, sub_topic, api_key) ==
    [IdleReq EXCEPT !.entry = entry, !.size = size, !.topic = topic,
                    !.sub_topic = sub_topic, !.api_key = api_key]

-----------------------------------------------------------------------------
(* The process and its connection pool: main.py, db.py, index.py *)

\* the application has started and routes requests to the handlers
Serving == process.phase = "serving"

\* `self._pool is None` is false
PoolOpen == _pool # "None"

\* started under uvicorn off Vercel, after the lifespan start-up has run
ServerProcess == [VERCEL |-> FALSE, lifespan_mode |-> "on", phase |-> "serving"]

-----------------------------------------------------------------------------
(* Entry points *)

\* mutant: the caller's topic is stored before the text is validated
generate_from_text_topic_first(r, text, size, topic, sub_topic) ==
    /\ Serving
    /\ req[r].pc = "idle"
    /\ \E api_key \in ChooseApiKey(settings.GENAI_API_KEYS) :
          LET q == [Open("text", size, topic, sub_topic, api_key) EXCEPT !.text = text]
              source_text == Strip(text)
              count == SizeCount(size)
          IN  /\ req' = [req EXCEPT ![r] =
                   IF CredentialMissing(api_key) THEN Fail(q, "genai_api_key_missing")
                   ELSE IF ~Truthy(source_text) THEN Fail(q, "empty_text")
                   ELSE [q EXCEPT !.pc = "gen1", !.count = count,
                                  !.parts = <<Part("text", source_text, "", 0),
                                              build_generation_prompt(count)>>]]
              /\ topics' = IF Truthy(topic) /\ ~CredentialMissing(api_key)
                           THEN Append(topics, [name |-> Strip(topic)]) ELSE topics
    /\ UNCHANGED <<service, settings, sub_topics, questions, choices>>

generate_from_text(r, text, size, topic, sub_topic) ==
    /\ Serving
    /\ req[r].pc = "idle"
    /\ \E api_key \in ChooseApiKey(settings.GENAI_API_KEYS) :
          LET q == [Open("text", size, topic, sub_topic, api_key) EXCEPT !.text = text]
              source_text == Strip(text)
              count == SizeCount(size)
          IN  req' = [req EXCEPT ![r] =
                IF CredentialMissing(api_key) THEN Fail(q, "genai_api_key_missing")
                ELSE IF ~Truthy(source_text) THEN Fail(q, "empty_text")
                ELSE [q EXCEPT !.pc = "gen1", !.count = count,
                               !.parts = <<Part("text", source_text, "", 0),
                                           build_generation_prompt(count)>>]]
    /\ UNCHANGED <<service, settings, topics, sub_topics, questions, choices>>

generate_from_pdf(r, size, topic, sub_topic) ==
    /\ Serving
    /\ req[r].pc = "idle"
    /\ \E api_key \in ChooseApiKey(settings.GENAI_API_KEYS), upload_ok \in BOOLEAN :
          LET q == Open("pdf", size, topic, sub_topic, api_key)
              count == SizeCount(size)
          IN  req' = [req EXCEPT ![r] =
                IF CredentialMissing(api_key) THEN Fail(q, "genai_api_key_missing")
                ELSE IF ~upload_ok THEN Fail([q EXCEPT !.count = count, !.uploads = 1], "upload_error")
                ELSE [q EXCEPT !.pc = "gen1", !.count = count, !.uploads = 1,
                               !.parts = <<Part("uploaded", <<"pdf-bytes">>, "application/pdf", 0),
                                           build_generation_prompt(count)>>]]
    /\ UNCHANGED <<service, settings, topics, sub_topics, questions, choices>>

generate_from_link(r, url, size, topic, sub_topic) ==
    /\ Serving
    /\ req[r].pc = "idle"
    /\ \E api_key \in ChooseApiKey(settings.GENAI_API_KEYS) :
          LET q == [Open("link", size, topic, sub_topic, api_key) EXCEPT !.urls = <<url>>]
          IN  req' = [req EXCEPT ![r] =
                IF CredentialMissing(api_key) THEN Fail(q, "genai_api_key_missing")
                ELSE [q EXCEPT !.pc = "fetch", !.count = SizeCount(size), !.todo = <<url>>]]
    /\ UNCHANGED <<service, settings, topics, sub_topics, questions, choices>>

generate_from_links(r, urls, size, topic, sub_topic) ==
    /\ Serving
    /\ req[r].pc = "idle"
    /\ \E api_key \in ChooseApiKey(settings.GENAI_API_KEYS) :
          LET q == [Open("links", size, topic, sub_topic, api_key) EXCEPT !.urls = urls]
              normalized_urls == NormalizeUrls(urls)
          IN  req' = [req EXCEPT ![r] =
                IF CredentialMissing(api_key) THEN Fail(q, "genai_api_key_missing")
                ELSE IF normalized_urls = <<>> THEN Fail(q, "no_urls_provided")
                ELSE IF Len(normalized_urls) > MAX_LINKS THEN Fail(q, "too_many_links")
                ELSE [q EXCEPT !.pc = "fetch", !.count = SizeCount(size), !.todo = normalized_urls]]
    /\ UNCHANGED <<service, settings, topics, sub_topics, questions, choices>>

-----------------------------------------------------------------------------
(* Source resolution and generation *)

\* mutant: a resolved part is put in front of the parts resolved before it
AppendPart_in_front(parts, part) == <<part>> \o parts

\* parts.append(part_or_file)
AppendPart(parts, part) == Append(parts, part)

\* create_content_part_for_url on the next url, then parts.append; after the last
\* url the prompt is appended
create_content_part_for_url(r, upload_ok) ==
    /\ req[r].pc = "fetch"
    /\    LET q == req[r]
              url == Head(q.todo)
              resp == HttpGet(url)
              mime_type == _infer_mime_type(url, resp.content_type)
              got == [q EXCEPT !.fetched = q.fetched + 1]
              Append1(qq, part) ==
                  IF Tail(qq.todo) = <<>>
                  THEN [qq EXCEPT !.todo = <<>>, !.pc = "gen1",
                                  !.parts = Append(AppendPart(qq.parts, part),
                                                   build_generation_prompt(qq.count))]
                  ELSE [qq EXCEPT !.todo = Tail(qq.todo), !.parts = AppendPart(qq.parts, part)]
          IN  req' = [req EXCEPT ![r] =
                IF detect_youtube(url) THEN Append1(q, Part("file_uri", url, "", 0))
                ELSE IF resp.failed THEN Fail(got, "failed_to_fetch_url")
                ELSE IF resp.status # 200 THEN Fail(got, "bad_url_status")
                ELSE IF mime_type \notin SUPPORTED_MIME THEN Fail(got, "unsupported_content_type")
                ELSE IF ~upload_ok THEN Fail([got EXCEPT !.uploads = q.uploads + 1], "upload_error")
                ELSE Append1([got EXCEPT !.uploads = q.uploads + 1],
                             Part("uploaded", url, mime_type, 0))]
    /\ UNCHANGED <<service, settings, topics, sub_topics, questions, choices>>

\* the try block of _generate_with_fallback(_parts): the call to the primary model
generate_primary(r, out) ==
    /\ req[r].pc = "gen1"
    /\    LET q == [req[r] EXCEPT !.calls = Append(req[r].calls, Call("primary", req[r], out))]
          IN  req' = [req EXCEPT ![r] =
                IF out.ok THEN AfterGenerate(q, out.text)
                ELSE IF ~IsOverloaded(out.exc) THEN Fail(q, out.exc.cls)
                ELSE [q EXCEPT !.pc = "gen2"]]
    /\ UNCHANGED <<service, settings, topics, sub_topics, questions, choices>>

\* mutant: a failed fallback is tried again
generate_secondary_retrying(r, out) ==
    /\ req[r].pc = "gen2"
    /\    LET q == [req[r] EXCEPT !.calls = Append(req[r].calls, Call("secondary", req[r], out))]
          IN  req' = [req EXCEPT ![r] =
                IF out.ok THEN AfterGenerate(q, out.text)
                ELSE IF IsOverloaded(out.exc) THEN q ELSE Fail(q, out.exc.cls)]
    /\ UNCHANGED <<service, settings, topics, sub_topics, questions, choices>>

\* the except block: the call to the secondary model
generate_secondary(r, out) ==
    /\ req[r].pc = "gen2"
    /\    LET q == [req[r] EXCEPT !.calls = Append(req[r].calls, Call("secondary", req[r], out))]
          IN  req' = [req EXCEPT ![r] =
                IF out.ok THEN AfterGenerate(q, out.text) ELSE Fail(q, out.exc.cls)]
    /\ UNCHANGED <<service, settings, topics, sub_topics, questions, choices>>

-----------------------------------------------------------------------------
(* Storage: one action per awaited statement of the persist loop *)

\* id of the row equal to row in table (ids are positions), 0 when absent
RowId(table, row) ==
    IF \E i \in DOMAIN table : table[i] = row
    THEN CHOOSE i \in DOMAIN table : table[i] = row
    ELSE 0

\* mutant: a plain INSERT, without the ON CONFLICT clause
Upsert_always_inserts(table, row) ==
    [table |-> Append(table, row), id |-> Len(table) + 1, inserted |-> 1]

\* INSERT ... ON CONFLICT (key) DO UPDATE ... RETURNING id
Upsert(table, row) ==
    IF RowId(table, row) # 0
    THEN [table |-> table, id |-> RowId(table, row), inserted |-> 0]
    ELSE [table |-> Append(table, row), id |-> Len(table) + 1, inserted |-> 1]

upsert_topic(r) ==
    /\ PoolOpen
    /\ req[r].pc = "topic"
    /\ LET q == req[r]
           up == Upsert(topics, [name |-> Strip(q.use_topic)])
       IN  /\ topics' = up.table
           /\ req' = [req EXCEPT ![r] = [q EXCEPT !.pc = "sub_topic", !.topic_id = up.id,
                                                   !.rows = q.rows + up.inserted]]
    /\ UNCHANGED <<service, settings, sub_topics, questions, choices>>

upsert_sub_topic(r) ==
    /\ PoolOpen
    /\ req[r].pc = "sub_topic"
    /\ LET q == req[r]
           up == Upsert(sub_topics, [topic_id |-> q.topic_id, name |-> Strip(q.use_sub_topic)])
           got == [q EXCEPT !.sub_topic_id = up.id, !.rows = q.rows + up.inserted]
       IN  /\ sub_topics' = up.table
           /\ req' = [req EXCEPT ![r] =
                 IF ~q.data[q.idx].obj THEN Fail(got, "AttributeError")
                 ELSE [got EXCEPT !.pc = "question"]]
    /\ UNCHANGED <<service, settings, topics, questions, choices>>

insert_question(r) ==
    /\ PoolOpen
    /\ req[r].pc = "question"
    /\ LET q == req[r]
           item == q.data[q.idx]
           qid == Len(questions) + 1
           got == [q EXCEPT !.qid = qid, !.cidx = 0, !.qids = Append(q.qids, qid),
                            !.rows = q.rows + 1]
       IN  /\ questions' = Append(questions,
                 [ sub_topic_id |-> q.sub_topic_id, question_text |-> item.question_text,
                   explanation |-> item.explanation, image_url |-> item.image_url ])
           /\ req' = [req EXCEPT ![r] =
                 IF item.choices = <<>> THEN ItemDone(got) ELSE [got EXCEPT !.pc = "choice"]]
    /\ UNCHANGED <<service, settings, topics, sub_topics, choices>>

insert_choice(r) ==
    /\ PoolOpen
    /\ req[r].pc = "choice"
    /\ LET q == req[r]
           item == q.data[q.idx]
           got == [q EXCEPT !.cidx = q.cidx + 1, !.rows = q.rows + 1]
       IN  /\ choices' = Append(choices,
                 [ question_id |-> q.qid, choice_text |-> item.choices[q.cidx + 1],
                   is_correct |-> IsCorrect(q.cidx, CorrectIndex(item)) ])
           /\ req' = [req EXCEPT ![r] =
                 IF q.cidx + 1 = Len(item.choices) THEN ItemDone(got) ELSE got]
    /\ UNCHANGED <<service, settings, topics, sub_topics, questions>>

\* mutant: the failing request's writes are undone, as if the batch were one transaction
storage_error_rolling_back(r) ==
    /\ PoolOpen
    /\ req[r].pc \in {"topic", "sub_topic", "question", "choice"}
    /\ req' = [req EXCEPT ![r] = Fail(req[r], "storage_error")]
    /\ topics' = <<>> /\ sub_topics' = <<>> /\ questions' = <<>> /\ choices' = <<>>
    /\ UNCHANGED <<service, settings>>

\* a storage call raises (connection lost, pool exhausted): nothing is written
storage_error(r) ==
    /\ PoolOpen
    /\ req[r].pc \in {"topic", "sub_topic", "question", "choice"}
    /\ req' = [req EXCEPT ![r] = Fail(req[r], "storage_error")]
    /\ UNCHANGED <<service, settings, topics, sub_topics, questions, choices>>

\* db.fetchval / db.execute with no pool: RuntimeError("Database pool is not initialized")
pool_not_initialized(r) ==
    /\ ~PoolOpen
    /\ req[r].pc \in {"topic", "sub_topic", "question", "choice"}
    /\ req' = [req EXCEPT ![r] = Fail(req[r], "RuntimeError")]
    /\ UNCHANGED <<service, settings, topics, sub_topics, questions, choices>>

-----------------------------------------------------------------------------
(* Start-up: main.py lifespan, index.py handler *)

\* uvicorn runs the lifespan context: connect and init_schema unless VERCEL is set
lifespan ==
    /\ process.phase = "boot"
    /\ process.lifespan_mode = "on"
    /\ process' = [process EXCEPT !.phase = "serving"]
    /\ _pool' = IF ~process.VERCEL THEN "open" ELSE _pool
    /\ UNCHANGED <<settings, req, topics, sub_topics, questions, choices,
                   today, user_answers, answer, streak>>

\* Mangum(app, lifespan="off"): the first invocation is routed with no start-up hook run
handler ==
    /\ process.phase = "boot"
    /\ process.lifespan_mode = "off"
    /\ process' = [process EXCEPT !.phase = "serving"]
    /\ UNCHANGED <<settings, req, topics, sub_topics, questions, choices,
                   _pool, today, user_answers, answer, streak>>

\* midnight passes: date.today() and the default of answered_at move to the next day
tick ==
    /\ today < MaxDays
    /\ today' = today + 1
    /\ UNCHANGED <<settings, req, topics, sub_topics, questions, choices,
                   process, _pool, user_answers, answer, streak>>

-----------------------------------------------------------------------------
(* Answer submission: routers/questions.py *)

DEFAULT_USER_ID == 1

\* correct_choice_id 0: None; recorded: this submission inserted its user_answers row
IdleAnswer ==
    [ pc |-> "idle", question_id |-> 0, choice_id |-> 0, is_correct |-> FALSE,
      correct_choice_id |-> 0, recorded |-> FALSE,
      response |-> [is_correct |-> FALSE, correct_choice_id |-> 0], error |-> "" ]

\* POST /answers down to its second query: the choice is looked up and checked
submit_answer(question_id, choice_id) ==
    /\ Serving
    /\ answer.pc \in {"idle", "done", "failed"}
    /\ Len(user_answers) < MaxAnswers
    /\ LET a == [IdleAnswer EXCEPT !.question_id = question_id, !.choice_id = choice_id]
       IN  answer' =
             IF ~PoolOpen THEN [a EXCEPT !.pc = "failed", !.error = "RuntimeError"]
             ELSE IF choice_id \notin DOMAIN choices \/ choices[choice_id].question_id # question_id
                  THEN [a EXCEPT !.pc = "failed", !.error = "invalid_choice"]
                  ELSE [a EXCEPT !.pc = "correct", !.is_correct = choices[choice_id].is_correct]
    /\ UNCHANGED <<settings, req, topics, sub_topics, questions, choices,
                   process, _pool, today, user_answers, streak>>

\* SELECT id FROM choices WHERE question_id = $1 AND is_correct = TRUE (fetchval:
\* the first row's id, None when there is no row)
fetch_correct_choice ==
    /\ PoolOpen
    /\ answer.pc = "correct"
    /\ LET found == {c \in DOMAIN choices :
                        choices[c].question_id = answer.question_id /\ choices[c].is_correct}
       IN  answer' = [answer EXCEPT !.pc = "insert",
                                    !.correct_choice_id =
                                        IF found = {} THEN 0
                                        ELSE CHOOSE c \in found : \A d \in found : c <= d]
    /\ UNCHANGED <<settings, req, topics, sub_topics, questions, choices,
                   process, _pool, today, user_answers, streak>>

\* INSERT INTO user_answers, then AnswerResponse(..., int(correct_choice_id)):
\* int(None) raises TypeError.  The INSERT names no answered_at: the row is dated
\* by the column's default, the time of insertion
insert_user_answer ==
    /\ PoolOpen
    /\ answer.pc = "insert"
    /\ user_answers' = Append(user_answers,
          [ user_id |-> DEFAULT_USER_ID, question_id |-> answer.question_id,
            choice_id |-> answer.choice_id, is_correct |-> answer.is_correct, day |-> today ])
    /\ answer' =
          IF answer.correct_choice_id = 0
          THEN [answer EXCEPT !.pc = "failed", !.error = "TypeError", !.recorded = TRUE]
          ELSE [answer EXCEPT !.pc = "done", !.recorded = TRUE,
                              !.response = [ is_correct |-> answer.is_correct,
                                             correct_choice_id |-> answer.correct_choice_id ]]
    /\ UNCHANGED <<settings, req, topics, sub_topics, questions, choices,
                   process, _pool, today, streak>>

\* the second query or the insert raises: nothing is written
answer_storage_error ==
    /\ PoolOpen
    /\ answer.pc \in {"correct", "insert"}
    /\ answer' = [answer EXCEPT !.pc = "failed", !.error = "storage_error"]
    /\ UNCHANGED <<settings, req, topics, sub_topics, questions, choices,
                   process, _pool, today, user_answers, streak>>

-----------------------------------------------------------------------------
(* Streak: routers/streak.py *)

\* CASE WHEN cnt >= 5
STREAK_GOAL == 5

\* day >= $2::date - INTERVAL '365 days'
STREAK_WINDOW_DAYS == 365

\* COUNT(*) of the user's rows of one day
DayCount(rows, user_id, day) ==
    Cardinality({i \in DOMAIN rows : rows[i].user_id = user_id /\ rows[i].day = day})

\* the second query: daily, flagged, gaps and the final count
StreakQuery(rows, user_id, day) ==
    LET daily == {rows[i].day : i \in {j \in DOMAIN rows : rows[j].user_id = user_id}}
        broken(d) == IF DayCount(rows, user_id, d) >= STREAK_GOAL THEN 0 ELSE 1
        gaps == {d \in daily : d <= day}
        grp(d) == Cardinality({e \in gaps : e >= d /\ broken(e) = 1})
    IN  Cardinality({d \in gaps : grp(d) = 0 /\ d >= day - STREAK_WINDOW_DAYS})

IdleStreak ==
    [ pc |-> "idle", today |-> 0, today_count |-> 0, current_streak_days |-> 0, error |-> "" ]

\* GET /streak down to its second query: today = date.today() and today's count
get_streak ==
    /\ Serving
    /\ streak.pc \in {"idle", "done", "failed"}
    /\ streak' =
          IF ~PoolOpen THEN [IdleStreak EXCEPT !.pc = "failed", !.error = "RuntimeError"]
          ELSE [IdleStreak EXCEPT !.pc = "query", !.today = today,
                                  !.today_count = DayCount(user_answers, DEFAULT_USER_ID, today)]
    /\ UNCHANGED <<settings, req, topics, sub_topics, questions, choices,
                   process, _pool, today, user_answers, answer>>

\* the second query and the response
streak_query ==
    /\ PoolOpen
    /\ streak.pc = "query"
    /\ streak' = [streak EXCEPT !.pc = "done",
                                !.current_streak_days =
                                    StreakQuery(user_answers, DEFAULT_USER_ID, streak.today)]
    /\ UNCHANGED <<settings, req, topics, sub_topics, questions, choices,
                   process, _pool, today, user_answers, answer>>

-----------------------------------------------------------------------------
(* Specifications *)

EnvLegacy == [GENAI_API_KEYS |-> <<>>, GENAI_API_KEY |-> KeyLegacy]

\* an empty store, no request yet
InitStore(envs, reqs) ==
    /\ settings \in {load_settings(env) : env \in envs}
    /\ req = [r \in reqs |-> IdleReq]
    /\ topics = <<>>
    /\ sub_topics = <<>>
    /\ questions = <<>>
    /\ choices = <<>>
    /\ today = 1
    /\ user_answers = <<>>
    /\ answer = IdleAnswer
    /\ streak = IdleStreak

\* a server process whose start-up has connected the pool
InitWith(envs, reqs) ==
    /\ InitStore(envs, reqs)
    /\ process = ServerProcess
    /\ _pool = "open"

\* the statements of the persist loop, for request r
Persist(r) ==
    \/ upsert_topic(r)
    \/ upsert_sub_topic(r)
    \/ insert_question(r)
    \/ insert_choice(r)
    \/ storage_error(r)

(* Spec: one request; every entry point with all its sources, sizes, credential
   configurations and generation outcomes; short payloads. *)

Init == InitWith(Envs, {1})

FewTopics == {<<>>, <<WS, "Bio">>}

FewSubTopics == {<<>>}

FewPayloads ==
    { [kind |-> "empty", value |-> <<>>], [kind |-> "garbage", value |-> <<>>], Array(<<ItemA>>) }

Next ==
    \/ \E text \in Texts, size \in Sizes, topic \in FewTopics, sub_topic \in FewSubTopics :
          generate_from_text(1, text, size, topic, sub_topic)
    \/ \E size \in Sizes, topic \in FewTopics, sub_topic \in FewSubTopics :
          generate_from_pdf(1, size, topic, sub_topic)
    \/ \E url \in Links, size \in Sizes, topic \in FewTopics, sub_topic \in FewSubTopics :
          generate_from_link(1, url, size, topic, sub_topic)
    \/ \E urls \in Batches, size \in Sizes, topic \in FewTopics, sub_topic \in FewSubTopics :
          generate_from_links(1, urls, size, topic, sub_topic)
    \/ \E upload_ok \in BOOLEAN : create_content_part_for_url(1, upload_ok)
    \/ \E out \in GenOutcomes(FewPayloads, Excs) : generate_primary(1, out)
    \/ \E out \in GenOutcomes(FewPayloads, Excs) : generate_secondary(1, out)
    \/ Persist(1)

Spec == Init /\ [][Next]_vars

(* SpecPersist: one request; every payload, caller topic and caller sub-topic;
   one source per entry point. *)

InitPersist == InitWith({EnvLegacy}, {1})

TwoSizes == {"tiny", "large"}

OneExc == {[cls |-> "ServerError", code |-> 503, status_code |-> 0, unavailable |-> TRUE]}

NextPersist ==
    \/ \E size \in TwoSizes, topic \in CallerTopics, sub_topic \in CallerSubTopics :
          \/ generate_from_text(1, <<"text">>, size, topic, sub_topic)
          \/ generate_from_links(1, <<UrlVideo>>, size, topic, sub_topic)
    \/ create_content_part_for_url(1, TRUE)
    \/ \E out \in GenOutcomes(Payloads, OneExc) : generate_primary(1, out)
    \/ \E out \in GenOutcomes(Payloads, {}) : generate_secondary(1, out)
    \/ Persist(1)

SpecPersist == InitPersist /\ [][NextPersist]_vars

(* SpecConc: MaxReqs requests submitted as text and running concurrently, their
   storage statements interleaved; names that collide once trimmed. *)

InitConc == InitWith({EnvLegacy}, Reqs)

ConcPayloads == {Array(<<ItemD>>), Array(<<ItemE>>)}

NextConc ==
    \E r \in Reqs :
        \/ \E topic \in FewTopics : generate_from_text(r, <<"text">>, "tiny", topic, <<>>)
        \/ \E out \in GenOutcomes(ConcPayloads, {}) : generate_primary(r, out)
        \/ Persist(r)

SpecConc == InitConc /\ [][NextConc]_vars

(* SpecApp: the process from its start, in each start-up mode; one generation
   request that stores two questions; answer submissions and streak requests
   over the days. *)

\* VERCEL set or not; started by uvicorn (lifespan run) or through index.py
Processes ==
    {[VERCEL |-> v, lifespan_mode |-> m, phase |-> "boot"] : v \in BOOLEAN, m \in {"on", "off"}}

InitApp ==
    /\ InitStore({EnvLegacy}, {1})
    /\ process \in Processes
    /\ _pool = "None"

AppPayloads == {Array(<<ItemA, ItemB>>)}

\* submissions: the correct choice of the first question, a choice of the second
\* (which has no correct choice), a choice of another question, an unknown choice
AnswerInputs ==
    { [question_id |-> 1, choice_id |-> 2], [question_id |-> 2, choice_id |-> 3],
      [question_id |-> 1, choice_id |-> 3], [question_id |-> 1, choice_id |-> 9] }

NextApp ==
    \/ lifespan
    \/ handler
    \/ tick
    \/ generate_from_text(1, <<"text">>, "tiny", <<>>, <<>>)
    \/ \E out \in GenOutcomes(AppPayloads, {}) : generate_primary(1, out)
    \/ upsert_topic(1)
    \/ upsert_sub_topic(1)
    \/ insert_question(1)
    \/ insert_choice(1)
    \/ pool_not_initialized(1)
    \/ \E a \in AnswerInputs : submit_answer(a.question_id, a.choice_id)
    \/ fetch_correct_choice
    \/ insert_user_answer
    \/ answer_storage_error
    \/ get_streak
    \/ streak_query

SpecApp == InitApp /\ [][NextApp]_vars

-----------------------------------------------------------------------------
(* Vocabulary of the properties *)

\* a failure by which the backend reports that it is temporarily unavailable
OverloadClass(exc) == exc.cls = "ServerError" /\ (exc.code = 503 \/ exc.unavailable)

PrimaryFailed(q) == Len(q.calls) >= 1 /\ ~q.calls[1].ok

\* the text the request's last generation call returned
ReturnedText(q) == q.calls[Len(q.calls)].text

GotText(q) == q.calls # <<>> /\ q.calls[Len(q.calls)].ok

StoredRows == Len(topics) + Len(sub_topics) + Len(questions) + Len(choices)

\* the request has stored nothing; when it is the only request, storage is empty
PersistedNothing(r) ==
    /\ req[r].rows = 0
    /\ req[r].qids = <<>>
    /\ DOMAIN req = {r} => StoredRows = 0

-----------------------------------------------------------------------------
(* C1: when the primary call fails with an overload-class failure, a finished
   request has made exactly one further call, to the secondary model, and that
   call decided it: on success the request went on with the secondary's text,
   on failure it failed with that failure.  A second call is only ever made
   after such a failure, and no request makes more than two calls. *)
C1_FallbackOnce ==
    \A r \in DOMAIN req :
        LET q == req[r]
            c == q.calls
        IN  /\ Len(c) <= 2
            /\ Len(c) = 2 => PrimaryFailed(q) /\ OverloadClass(c[1].exc)
            /\ (PrimaryFailed(q) /\ OverloadClass(c[1].exc)) =>
                  /\ q.pc = "gen2" \/ Len(c) = 2
                  /\ Len(c) = 1 => q.pc = "gen2"
                  /\ Len(c) = 2 =>
                        /\ c[1].role = "primary" /\ c[1].model = settings.GEN_AI_MODEL_1
                        /\ c[2].role = "secondary" /\ c[2].model = settings.GEN_AI_MODEL_2
                        /\ c[2].ok => q.response_text = TextOrEmptyArray(c[2].text)
                        /\ ~c[2].ok => q.pc = "failed" /\ q.error = c[2].exc.cls
                                       /\ PersistedNothing(r)

\* the secondary call followed a primary overload, succeeded and its item was stored
C1_Witness ==
    \E r \in DOMAIN req :
        /\ req[r].pc = "done"
        /\ Len(req[r].calls) = 2
        /\ OverloadClass(req[r].calls[1].exc)
        /\ req[r].calls[2].ok
        /\ req[r].result.created = 1

(* C2: a primary failure that is not overload-class ends the request at once
   with that failure: no second call, nothing stored. *)
C2_OtherFailurePropagates ==
    \A r \in DOMAIN req :
        LET q == req[r]
        IN  (PrimaryFailed(q) /\ ~OverloadClass(q.calls[1].exc)) =>
                /\ q.pc = "failed"
                /\ q.error = q.calls[1].exc.cls
                /\ Len(q.calls) = 1
                /\ PersistedNothing(r)

\* the primary raised a server error that is not an overload
C2_Witness ==
    \E r \in DOMAIN req :
        /\ PrimaryFailed(req[r])
        /\ req[r].calls[1].exc.cls = "ServerError"
        /\ req[r].calls[1].exc.code = 500
        /\ ~req[r].calls[1].exc.unavailable
        /\ req[r].pc = "failed"

-----------------------------------------------------------------------------
(* Reading the store *)

Min(a, b) == IF a <= b THEN a ELSE b

Least(S) == CHOOSE i \in S : \A j \in S : i <= j

\* how many items a returned text holds: the elements of an array, one for any other JSON value
PayloadItems(text) ==
    CASE text.kind = "array" -> Len(text.value)
      [] text.kind \in {"object", "scalar"} -> 1
      [] OTHER -> 0

SubTopicNameOf(qid) == sub_topics[questions[qid].sub_topic_id].name

TopicNameOf(qid) == topics[sub_topics[questions[qid].sub_topic_id].topic_id].name

RECURSIVE ChoicesOf(_, _)
\* the choice rows of question qid among rows, in insertion order
ChoicesOf(rows, qid) ==
    IF rows = <<>> THEN <<>>
    ELSE IF Head(rows).question_id = qid THEN <<Head(rows)>> \o ChoicesOf(Tail(rows), qid)
         ELSE ChoicesOf(Tail(rows), qid)

Persisting(q) == q.pc \in {"topic", "sub_topic", "question", "choice"}

-----------------------------------------------------------------------------
(* C3: a request that returns "ok" reports as created the number of Question
   rows it inserted, which is min(R, N) for R returned items and N requested. *)
C3_CreatedIsMin ==
    \A r \in DOMAIN req :
        LET q == req[r]
        IN  q.pc = "done" =>
                /\ q.result.status = "ok"
                /\ q.result.requested = q.count
                /\ q.result.created = Len(q.qids)
                /\ DOMAIN req = {r} => q.result.created = Len(questions)
                /\ q.result.created = Min(PayloadItems(ReturnedText(q)), q.count)

\* six items were returned for five requested and five were created
C3_Witness ==
    \E r \in DOMAIN req :
        /\ req[r].pc = "done"
        /\ PayloadItems(ReturnedText(req[r])) = 6
        /\ req[r].count = 5
        /\ req[r].result.created = 5
        /\ Len(questions) = 5

(* C4 as stated: with a caller topic, every question of the request is stored
   under the Topic whose name is the caller's topic. *)
C4_AsStated ==
    \A r \in DOMAIN req :
        Truthy(req[r].topic) =>
            \A i \in DOMAIN req[r].qids : TopicNameOf(req[r].qids[i]) = req[r].topic

(* C4, amended: with a caller topic, every question of the request is stored
   under the Topic whose name is the caller's topic with the surrounding
   whitespace removed, whatever topics the items carry. *)
C4_CallerTopicTrimmed ==
    \A r \in DOMAIN req :
        Truthy(req[r].topic) =>
            \A i \in DOMAIN req[r].qids : TopicNameOf(req[r].qids[i]) = Strip(req[r].topic)

\* two questions stored under the caller's "Bio" though an item names another topic
C4_Witness ==
    \E r \in DOMAIN req :
        /\ req[r].pc = "done"
        /\ req[r].topic = <<WS, "Bio">>
        /\ Len(req[r].qids) = 2
        /\ \E i \in DOMAIN req[r].data : Strip(req[r].data[i].topic) = <<"History">>
        /\ \A i \in DOMAIN req[r].qids : TopicNameOf(req[r].qids[i]) = <<"Bio">>

\* the document topic has been resolved
TopicResolved(q) == Persisting(q) \/ q.pc = "done" \/ q.document_topic # <<>>

\* the first item topic that is not the empty string, or "General"
FirstNonEmptyTopic(items) ==
    LET S == {i \in DOMAIN items : items[i].topic # <<>>}
    IN  IF S = {} THEN <<"General">> ELSE items[Least(S)].topic

\* the first item topic that is not empty once trimmed, trimmed, or "General"
FirstNonBlankTopic(items) ==
    LET S == {i \in DOMAIN items : Strip(items[i].topic) # <<>>}
    IN  IF S = {} THEN <<"General">> ELSE Strip(items[Least(S)].topic)

(* C5 as stated: without a caller topic the document topic is the first
   non-empty item topic in item order, or "General", and every question of the
   request is stored under it. *)
C5_AsStated ==
    \A r \in DOMAIN req :
        LET q == req[r]
        IN  (~Truthy(q.topic) /\ TopicResolved(q)) =>
                /\ q.document_topic = FirstNonEmptyTopic(q.data)
                /\ \A i \in DOMAIN q.qids : TopicNameOf(q.qids[i]) = q.document_topic

(* C5, amended: without a caller topic the document topic is the first item
   topic, in the order of the items kept after truncation, that is non-empty
   once its surrounding whitespace is removed, in that trimmed form; it is
   "General" if there is none; every question of the request is stored under it. *)
C5_FirstNonBlankTopic ==
    \A r \in DOMAIN req :
        LET q == req[r]
        IN  (~Truthy(q.topic) /\ TopicResolved(q)) =>
                /\ q.document_topic = FirstNonBlankTopic(q.data)
                /\ \A i \in DOMAIN q.qids : TopicNameOf(q.qids[i]) = q.document_topic

\* a blank item topic was passed over and both questions are under "History"
C5_Witness ==
    \E r \in DOMAIN req :
        /\ req[r].pc = "done"
        /\ ~Truthy(req[r].topic)
        /\ Len(req[r].qids) = 2
        /\ req[r].data[1].topic = <<WS>>
        /\ req[r].data[2].topic = <<"History", WS>>
        /\ \A i \in DOMAIN req[r].qids : TopicNameOf(req[r].qids[i]) = <<"History">>

\* the sub-topic of an item: the caller's if given, else the item's own, else "Misc"
ResolvedSubTopic(caller, item) ==
    IF caller # <<>> THEN caller
    ELSE IF item.sub_topic # <<>> THEN item.sub_topic
    ELSE <<"Misc">>

(* C6: for every item being persisted the resolved sub-topic is the caller's
   sub-topic if given, else the item's own, else "Misc"; the question is stored
   under the SubTopic of that name (trimmed by the upsert). *)
C6_SubTopicResolution ==
    \A r \in DOMAIN req :
        LET q == req[r]
        IN  /\ Persisting(q) => q.use_sub_topic = ResolvedSubTopic(q.sub_topic, q.data[q.idx])
            /\ \A i \in DOMAIN q.qids :
                  SubTopicNameOf(q.qids[i]) = Strip(ResolvedSubTopic(q.sub_topic, q.data[i]))

\* the caller's sub-topic was used for an item that carries its own
C6_Witness ==
    \E r \in DOMAIN req :
        /\ req[r].pc = "done"
        /\ req[r].sub_topic = <<"Cells", WS>>
        /\ Len(req[r].qids) = 2
        /\ req[r].data[1].sub_topic = <<"Dates">>
        /\ req[r].data[2].sub_topic = <<>>
        /\ \A i \in DOMAIN req[r].qids : SubTopicNameOf(req[r].qids[i]) = <<"Cells">>

-----------------------------------------------------------------------------
Trimmed(name) == Strip(name) = name

\* no two Topic rows share a name, no two SubTopic rows share a topic and a name,
\* and every identifier a request resolved names the row of its trimmed name
C7_Unique ==
    /\ \A i, j \in DOMAIN topics : topics[i].name = topics[j].name => i = j
    /\ \A i \in DOMAIN topics : Trimmed(topics[i].name)
    /\ \A i, j \in DOMAIN sub_topics :
          (sub_topics[i].topic_id = sub_topics[j].topic_id /\ sub_topics[i].name = sub_topics[j].name)
              => i = j
    /\ \A i \in DOMAIN sub_topics :
          Trimmed(sub_topics[i].name) /\ sub_topics[i].topic_id \in DOMAIN topics
    /\ \A r \in DOMAIN req :
          /\ req[r].pc \in {"sub_topic", "question", "choice"} =>
                /\ req[r].topic_id \in DOMAIN topics
                /\ topics[req[r].topic_id].name = Strip(req[r].use_topic)
          /\ req[r].pc \in {"question", "choice"} =>
                /\ req[r].sub_topic_id \in DOMAIN sub_topics
                /\ sub_topics[req[r].sub_topic_id] =
                      [topic_id |-> req[r].topic_id, name |-> Strip(req[r].use_sub_topic)]

\* Topic and SubTopic rows keep their identifier and are never removed
C7_Kept ==
    /\ Len(topics') >= Len(topics) /\ SubSeq(topics', 1, Len(topics)) = topics
    /\ Len(sub_topics') >= Len(sub_topics) /\ SubSeq(sub_topics', 1, Len(sub_topics)) = sub_topics

(* C7: under any interleaving of requests there is at most one Topic row per
   trimmed name and one SubTopic row per topic and trimmed name; a request that
   uses an existing name resolves the identifier of the existing row; Topic and
   SubTopic rows are never deleted. *)
C7_OneRowPerName == [](C7_Unique) /\ [][C7_Kept]_vars

\* two requests in flight hold the same Topic row, one through the caller's " Bio",
\* the other through an item's "Bio"
C7_Witness ==
    \E r1, r2 \in DOMAIN req :
        /\ r1 # r2
        /\ req[r1].pc = "sub_topic" /\ req[r2].pc = "sub_topic"
        /\ req[r1].use_topic = <<WS, "Bio">>
        /\ req[r2].use_topic = <<"Bio">>
        /\ req[r1].topic_id = req[r2].topic_id
        /\ Len(topics) = 1

-----------------------------------------------------------------------------
\* the entries of a batch that are not blank
NonBlank(urls) == {i \in DOMAIN urls : Strip(urls[i]) # <<>>}

NoBackendActivity(q) == q.fetched = 0 /\ q.uploads = 0 /\ q.calls = <<>> /\ q.parts = <<>>

(* C8 as stated: a multi-link request with more than 5 entries fails with
   too_many_links and one with no entry fails with no_urls_provided, before any
   fetch, upload or generation call. *)
C8_AsStated ==
    \A r \in DOMAIN req :
        LET q == req[r]
        IN  q.entry = "links" =>
                /\ Len(q.urls) > 5 =>
                      q.pc = "failed" /\ q.error = "too_many_links" /\ NoBackendActivity(q)
                /\ Len(q.urls) = 0 =>
                      q.pc = "failed" /\ q.error = "no_urls_provided" /\ NoBackendActivity(q)

(* C8, amended: a multi-link request that passes the credential guards fails with
   too_many_links when more than 5 of its entries are non-blank and with
   no_urls_provided when none is, in both cases before any fetch, upload or
   generation call; one that does not pass them fails with
   genai_api_key_missing instead, equally before any such call. *)
C8_LinkCountChecked ==
    \A r \in DOMAIN req :
        LET q == req[r]
            n == Cardinality(NonBlank(q.urls))
        IN  (q.entry = "links" /\ (n > 5 \/ n = 0)) =>
                /\ q.pc = "failed"
                /\ NoBackendActivity(q)
                /\ PersistedNothing(r)
                /\ q.error = IF ~Truthy(q.api_key) THEN "genai_api_key_missing"
                             ELSE IF n = 0 THEN "no_urls_provided" ELSE "too_many_links"

\* six links were submitted with a credential and refused
C8_Witness ==
    \E r \in DOMAIN req :
        /\ req[r].entry = "links"
        /\ Cardinality(NonBlank(req[r].urls)) = 6
        /\ Truthy(req[r].api_key)
        /\ req[r].error = "too_many_links"

-----------------------------------------------------------------------------
ValidJson(text) == text.kind \in {"array", "object", "scalar"}

(* C9 as stated: when the returned payload is not valid JSON the request fails
   with the parse error, never returns "ok", and persists nothing. *)
C9_AsStated ==
    \A r \in DOMAIN req :
        LET q == req[r]
        IN  (GotText(q) /\ ~ValidJson(ReturnedText(q))) =>
                /\ q.pc = "failed"
                /\ q.error = "JSONDecodeError"
                /\ q.result.status # "ok"
                /\ PersistedNothing(r)

(* C9, amended: when the returned payload is not empty and is not valid JSON the
   request fails with the parse error, never returns "ok", and persists
   nothing; an empty or absent payload is read as "[]": the request returns
   "ok" with created 0 and persists nothing. *)
C9_MalformedFails ==
    \A r \in DOMAIN req :
        LET q == req[r]
        IN  /\ (GotText(q) /\ ReturnedText(q).kind = "garbage") =>
                  /\ q.pc = "failed"
                  /\ q.error = "JSONDecodeError"
                  /\ q.result.status # "ok"
                  /\ PersistedNothing(r)
            /\ (GotText(q) /\ ReturnedText(q).kind = "empty") =>
                  /\ q.pc = "done"
                  /\ q.result.status = "ok" /\ q.result.created = 0
                  /\ PersistedNothing(r)

\* a text that does not parse was returned and the request failed on it
C9_Witness ==
    \E r \in DOMAIN req :
        /\ GotText(req[r])
        /\ ReturnedText(req[r]).kind = "garbage"
        /\ req[r].pc = "failed"
        /\ req[r].error = "JSONDecodeError"

-----------------------------------------------------------------------------
\* the number of rows marked correct
CorrectCount(rows) == Cardinality({k \in DOMAIN rows : rows[k].is_correct})

\* the item's correct_index (0 when the item gives none)
IndexOf(item) == IF item.correct_index = <<>> THEN 0 ELSE item.correct_index[1]

(* C10: the Choice rows of a persisted question are its item's option strings in
   option order, is_correct being true exactly at the position equal to
   correct_index; once the item's inserts are done there is one row per option,
   with exactly one correct row when 0 <= correct_index < number of options and
   none otherwise, the item being persisted all the same. *)
C10_ChoicesFollowOptions ==
    \A r \in DOMAIN req :
        LET q == req[r]
        IN  \A i \in DOMAIN q.qids :
                LET item == q.data[i]
                    rows == ChoicesOf(choices, q.qids[i])
                    n == Len(item.choices)
                IN  /\ Len(rows) <= n
                    /\ \A k \in DOMAIN rows :
                          /\ rows[k].choice_text = item.choices[k]
                          /\ rows[k].is_correct = (k - 1 = IndexOf(item))
                    /\ i < q.idx =>
                          /\ Len(rows) = n
                          /\ CorrectCount(rows) =
                                IF 0 <= IndexOf(item) /\ IndexOf(item) < n THEN 1 ELSE 0

\* one question with exactly one correct choice, one with an index out of range and none
C10_Witness ==
    \E r \in DOMAIN req :
        /\ req[r].pc = "done"
        /\ Len(req[r].qids) = 2
        /\ IndexOf(req[r].data[1]) = 1 /\ Len(req[r].data[1].choices) = 2
        /\ CorrectCount(ChoicesOf(choices, req[r].qids[1])) = 1
        /\ ChoicesOf(choices, req[r].qids[1])[2].is_correct
        /\ IndexOf(req[r].data[2]) = 2 /\ Len(req[r].data[2].choices) = 2
        /\ Len(ChoicesOf(choices, req[r].qids[2])) = 2
        /\ CorrectCount(ChoicesOf(choices, req[r].qids[2])) = 0

-----------------------------------------------------------------------------
\* the request failed while the loop stood at an item (q.idx is that item's position)
FailedAtItem(q) == q.pc = "failed" /\ q.idx >= 1

\* item i of the request is stored whole: its question and one choice per option
FullyPersisted(q, i) ==
    /\ i \in DOMAIN q.qids
    /\ q.qids[i] \in DOMAIN questions
    /\ questions[q.qids[i]].question_text = q.data[i].question_text
    /\ LET rows == ChoicesOf(choices, q.qids[i])
       IN  /\ Len(rows) = Len(q.data[i].choices)
           /\ \A k \in DOMAIN rows : rows[k].choice_text = q.data[i].choices[k]

(* C11: when a request fails while processing item k, every item before k is
   stored whole (its question and all of its choices), no item after k has a
   question or a choice, and the request does not return "ok". *)
C11_EarlierItemsKept ==
    \A r \in DOMAIN req :
        LET q == req[r]
        IN  FailedAtItem(q) =>
                /\ q.result.status # "ok"
                /\ \A i \in 1..(q.idx - 1) : FullyPersisted(q, i)
                /\ Len(q.qids) \in {q.idx - 1, q.idx}
                /\ DOMAIN req = {r} =>
                      /\ Len(questions) = Len(q.qids)
                      /\ \A c \in DOMAIN choices :
                            \E i \in DOMAIN q.qids : choices[c].question_id = q.qids[i]

\* storage failed between the two choices of the second item: the first item is whole
C11_Witness ==
    \E r \in DOMAIN req :
        /\ req[r].pc = "failed" /\ req[r].error = "storage_error"
        /\ req[r].idx = 2
        /\ Len(req[r].qids) = 2
        /\ Len(req[r].data[1].choices) = 2
        /\ FullyPersisted(req[r], 1)
        /\ Len(req[r].data[2].choices) = 2
        /\ Len(ChoicesOf(choices, req[r].qids[2])) = 1

-----------------------------------------------------------------------------
\* a credential one can present: not empty and not made of whitespace only
Usable(key) == Strip(key) # <<>>

\* neither the pool nor the legacy slot holds a usable credential
NoUsableCredential ==
    /\ \A i \in DOMAIN settings.GENAI_API_KEYS : ~Usable(settings.GENAI_API_KEYS[i])
    /\ ~Usable(settings.GENAI_API_KEY)

(* C12 as stated: on every entry point, when neither the pool nor the legacy slot
   yields a usable credential the request fails with genai_api_key_missing
   before any fetch, upload, generation call or storage write; when the pool is
   not empty the credential used is a member of the pool. *)
C12_AsStated ==
    \A r \in DOMAIN req :
        LET q == req[r]
        IN  q.pc # "idle" =>
                /\ NoUsableCredential =>
                      /\ q.pc = "failed" /\ q.error = "genai_api_key_missing"
                      /\ NoBackendActivity(q)
                      /\ PersistedNothing(r)
                /\ settings.GENAI_API_KEYS # <<>> =>
                      \E i \in DOMAIN settings.GENAI_API_KEYS : q.api_key = settings.GENAI_API_KEYS[i]

\* with a legacy slot holding only whitespace a generation call was made
C12_Witness ==
    \E r \in DOMAIN req :
        /\ NoUsableCredential
        /\ req[r].api_key = <<WS>>
        /\ req[r].calls # <<>>

-----------------------------------------------------------------------------
\* the requested count of a size token, letter case aside
RequestedFor(size) ==
    CASE size \in {"tiny", "TINY"} -> 5
      [] size = "small" -> 25
      [] size = "large" -> 50
      [] OTHER -> 25

\* the handler has resolved the count: it is resolving sources, generating,
\* persisting, or has returned
CountResolved(q) == q.pc \in {"fetch", "gen1", "gen2", "done"} \/ Persisting(q)

(* C13: on every entry point the requested count is 5 for tiny, 25 for small,
   50 for large and 25 for a token that is none of these; the prompt is built
   for that count and the result summary reports it as "requested". *)
C13_RequestedCount ==
    \A r \in DOMAIN req :
        LET q == req[r]
        IN  /\ q.count \in {0, RequestedFor(q.size)}
            /\ CountResolved(q) => q.count = RequestedFor(q.size)
            /\ \A c \in DOMAIN q.calls :
                  q.calls[c].contents[Len(q.calls[c].contents)] = build_generation_prompt(RequestedFor(q.size))
            /\ q.pc = "done" => q.result.requested = RequestedFor(q.size)

\* a batch of links submitted with an unknown size token returned requested = 25
C13_Witness ==
    \E r \in DOMAIN req :
        /\ req[r].pc = "done"
        /\ req[r].entry = "links"
        /\ req[r].size = "huge"
        /\ req[r].result.requested = 25

-----------------------------------------------------------------------------
\* the sources a request submitted, in submission order: the text, the PDF bytes,
\* or the links that are not blank, trimmed
SubmittedSources(q) ==
    CASE q.entry = "text" -> <<Strip(q.text)>>
      [] q.entry = "pdf" -> <<<<"pdf-bytes">>>>
      [] OTHER ->
            LET kept == SelectSeq(q.urls, LAMBDA u : Strip(u) # <<>>)
            IN  [i \in DOMAIN kept |-> Strip(kept[i])]

\* the part list holds one part per source, in the order of the sources
PartsFollow(parts, sources) ==
    /\ Len(parts) = Len(sources)
    /\ \A i \in DOMAIN parts : parts[i].kind # "prompt" /\ parts[i].uri = sources[i]

(* C14: every generation call of a request, primary or secondary, receives the
   same content list - one part per submitted source in submission order, then
   the prompt as last element - and the same output schema; the links of a
   batch are resolved one after another in that order. *)
C14_SameOrderedContents ==
    \A r \in DOMAIN req :
        LET q == req[r]
            sources == SubmittedSources(q)
        IN  /\ q.pc = "fetch" =>
                  /\ Len(q.parts) + Len(q.todo) = Len(sources)
                  /\ PartsFollow(q.parts, SubSeq(sources, 1, Len(q.parts)))
                  /\ q.todo = SubSeq(sources, Len(q.parts) + 1, Len(sources))
            /\ \A c \in DOMAIN q.calls :
                  LET contents == q.calls[c].contents
                  IN  /\ Len(contents) = Len(sources) + 1
                      /\ PartsFollow(SubSeq(contents, 1, Len(sources)), sources)
                      /\ contents[Len(contents)] = build_generation_prompt(q.count)
                      /\ contents = q.calls[1].contents
                      /\ q.calls[c].response_schema = MCQ_ARRAY_SCHEMA

\* both models were called for a batch of three links submitted around a blank entry
C14_Witness ==
    \E r \in DOMAIN req :
        /\ req[r].entry = "links"
        /\ Len(req[r].urls) = 4 /\ req[r].urls[2] = <<WS>>
        /\ Len(req[r].calls) = 2
        /\ Len(req[r].calls[2].contents) = 4
        /\ req[r].calls[2].contents[3].uri = UrlPdf

-----------------------------------------------------------------------------
\* the link's host is one of the known video-hosting domains
KnownVideoHost(url) == Hostname(url) \in YOUTUBE_HOSTS

\* the request failed on a link the web did not answer with status 200
FetchFailed(q) == q.pc = "failed" /\ q.error \in {"failed_to_fetch_url", "bad_url_status"}

\* the links of the request that have been resolved to a part (the prompt, once
\* appended, is the last element of parts and is no link)
ResolvedLinks(q) ==
    LET n == IF q.parts # <<>> /\ q.parts[Len(q.parts)].kind = "prompt"
             THEN Len(q.parts) - 1 ELSE Len(q.parts)
    IN  SubSeq(SubmittedSources(q), 1, n)

(* C15 as stated: a link is resolved to a remote-reference part, without HTTP
   fetch or upload, if and only if its host is one of the known video-hosting
   domains; every other link is fetched with a GET, and a non-200 status or a
   transport failure fails the request with a fetch error before any upload,
   generation call or persistence. *)
C15_AsStated ==
    \A r \in DOMAIN req :
        LET q == req[r]
        IN  (q.entry \in {"link", "links"} /\ (q.pc = "fetch" \/ q.fetched > 0 \/ q.parts # <<>>)) =>
                LET links == ResolvedLinks(q)
                    fetched == {i \in DOMAIN links : ~KnownVideoHost(links[i])}
                IN  /\ \A i \in DOMAIN links :
                          q.parts[i].kind = "file_uri" <=> KnownVideoHost(links[i])
                    /\ \A i \in DOMAIN links :
                          q.parts[i].kind = "uploaded" =>
                              ~HttpGet(links[i]).failed /\ HttpGet(links[i]).status = 200
                    /\ q.pc # "failed" => q.fetched = Cardinality(fetched) /\ q.uploads = Cardinality(fetched)
                    /\ FetchFailed(q) =>
                          /\ q.fetched = Cardinality(fetched) + 1
                          /\ q.uploads = Cardinality(fetched)
                          /\ q.calls = <<>>
                          /\ PersistedNothing(r)

\* a link whose host only contains a video-hosting domain name went to generation
\* as a remote reference, without fetch or upload
C15_Witness ==
    \E r \in DOMAIN req :
        /\ req[r].entry = "link"
        /\ req[r].urls = <<UrlLookalike>>
        /\ ~KnownVideoHost(UrlLookalike)
        /\ req[r].pc = "gen1"
        /\ req[r].fetched = 0 /\ req[r].uploads = 0
        /\ req[r].parts[1].kind = "file_uri"

-----------------------------------------------------------------------------
(* C18 as stated: when a request returns "ok" having created at least one
   question, the topic of its result summary is the name of the Topic row
   under which each of its questions is stored. *)
C18_AsStated ==
    \A r \in DOMAIN req :
        LET q == req[r]
        IN  (q.pc = "done" /\ q.result.created >= 1) =>
                \A i \in DOMAIN q.qids : TopicNameOf(q.qids[i]) = q.result.topic

\* the summary reports " Bio" while the question is stored under the Topic "Bio"
C18_Witness ==
    \E r \in DOMAIN req :
        /\ req[r].pc = "done"
        /\ req[r].result.created = 1
        /\ req[r].result.topic = <<WS, "Bio">>
        /\ TopicNameOf(req[r].qids[1]) = <<"Bio">>
        /\ \A t \in DOMAIN topics : topics[t].name # req[r].result.topic

-----------------------------------------------------------------------------
\* no request is in flight
Quiescent == \A r \in DOMAIN req : req[r].pc \in {"idle", "done", "failed"}

(* C19 as stated: between requests, also after a request that failed part-way,
   every stored question has exactly one choice row per option of the item it
   came from. *)
C19_AsStated ==
    Quiescent =>
        \A r \in DOMAIN req :
            \A i \in DOMAIN req[r].qids :
                Len(ChoicesOf(choices, req[r].qids[i])) = Len(req[r].data[i].choices)

\* the request has ended and left a question that has two options and no choice row
C19_Witness ==
    \E r \in DOMAIN req :
        /\ Quiescent
        /\ req[r].pc = "failed" /\ req[r].error = "storage_error"
        /\ Len(req[r].qids) = 1
        /\ req[r].qids[1] \in DOMAIN questions
        /\ Len(req[r].data[1].choices) = 2
        /\ ChoicesOf(choices, req[r].qids[1]) = <<>>

-----------------------------------------------------------------------------
RECURSIVE ConsecutiveDays(_, _, _)
\* the number of consecutive calendar days, from day backward, on each of which
\* the user has at least 5 answers; no row is dated before day 1
ConsecutiveDays(rows, user_id, day) ==
    IF day >= 1 /\ DayCount(rows, user_id, day) >= 5
    THEN 1 + ConsecutiveDays(rows, user_id, day - 1)
    ELSE 0

(* C16 as stated: the streak endpoint's current_streak_days is the number of
   consecutive calendar days, starting at today and walking backward one day
   at a time, on each of which the user has at least 5 answers; the count stops
   at the first day with fewer than 5, a day with no answer included. *)
C16_AsStated ==
    [][ (streak.pc = "query" /\ streak'.pc = "done") =>
            streak'.current_streak_days =
                ConsecutiveDays(user_answers, DEFAULT_USER_ID, streak.today) ]_vars

\* a streak of 1 was returned on a day that has no answer, for the 5 of the day before
C16_Witness ==
    /\ streak.pc = "done"
    /\ streak.today = 2
    /\ streak.today_count = 0
    /\ DayCount(user_answers, DEFAULT_USER_ID, 2) = 0
    /\ DayCount(user_answers, DEFAULT_USER_ID, 1) >= 5
    /\ streak.current_streak_days = 1

-----------------------------------------------------------------------------
\* the start-up hook skipped the connect (VERCEL set) or was not run at all
ServerlessMode == process.VERCEL \/ process.lifespan_mode = "off"

\* the error db.py raises when a storage primitive finds no pool
PoolError == "RuntimeError"

(* C17 as stated: in serverless mode storage operations still work, the
   connection being established on first use: no storage primitive fails for
   lack of an initialized pool. *)
C17_AsStated ==
    ServerlessMode =>
        /\ \A r \in DOMAIN req : req[r].error # PoolError
        /\ answer.error # PoolError
        /\ streak.error # PoolError

\* with VERCEL set the lifespan ran without connecting; a generation call was made
\* and its result was lost at the first storage statement
C17_Witness ==
    /\ process = [VERCEL |-> TRUE, lifespan_mode |-> "on", phase |-> "serving"]
    /\ _pool = "None"
    /\ \E r \in DOMAIN req :
          /\ req[r].pc = "failed" /\ req[r].error = PoolError
          /\ GotText(req[r])
          /\ PersistedNothing(r)

-----------------------------------------------------------------------------
\* what a step of an answer submission may do to the store
C20_Step ==
    /\ user_answers' # user_answers =>
          /\ answer'.pc = "done"
          /\ Len(user_answers') = Len(user_answers) + 1
    /\ answer'.pc = "failed" => ~answer'.recorded
    /\ answer'.error = "invalid_choice" => user_answers' = user_answers
    /\ answer' # answer => questions' = questions /\ choices' = choices

(* C20 as stated: a submission that does not return a successful response
   records no answer - a user_answers row is added only when the submission
   returns its result, whatever question of the store it names, and none for a
   choice that does not belong to the named question (invalid_choice);
   Question and Choice rows are never altered by a submission. *)
C20_AsStated == [][C20_Step]_vars

\* an answer to the question that has no correct choice was recorded and the
\* submission failed
C20_Witness ==
    /\ answer.pc = "failed" /\ answer.error = "TypeError"
    /\ answer.recorded
    /\ answer.question_id \in DOMAIN questions
    /\ \A c \in DOMAIN choices : choices[c].question_id = answer.question_id => ~choices[c].is_correct
    /\ user_answers # <<>>
    /\ user_answers[Len(user_answers)].question_id = answer.question_id

-----------------------------------------------------------------------------
\* the failures raised before the first storage statement: missing credential,
\* request shape, link fetch, content type, upload, generation, unparsable payload
EarlyFailures ==
    { "genai_api_key_missing", "empty_text", "no_urls_provided", "too_many_links",
      "failed_to_fetch_url", "bad_url_status", "unsupported_content_type", "upload_error",
      "ServerError", "ClientError", "JSONDecodeError" }

FailedEarly(q) == q.pc = "failed" /\ q.error \in EarlyFailures

\* a request that has failed early has created no row: the store holds nothing of it
C21_NoRows ==
    \A r \in DOMAIN req : FailedEarly(req[r]) => PersistedNothing(r)

\* the step by which a request fails early writes no table
C21_Step ==
    \A r \in DOMAIN req :
        (req[r].pc # "failed" /\ FailedEarly(req'[r])) =>
            /\ topics' = topics /\ sub_topics' = sub_topics
            /\ questions' = questions /\ choices' = choices

(* C21: a generation request that fails before persistence begins - missing
   credential, request-shape validation, link fetch, unsupported content type,
   generation failure on the final attempt, unparsable payload - leaves storage
   unchanged: it creates no Topic, SubTopic, Question or Choice row. *)
C21_EarlyFailureWritesNothing == [](C21_NoRows) /\ [][C21_Step]_vars

\* a batch failed on the content type of its second link, after resolving the first
C21_Witness ==
    \E r \in DOMAIN req :
        /\ req[r].pc = "failed" /\ req[r].error = "unsupported_content_type"
        /\ req[r].entry = "links"
        /\ Len(req[r].parts) = 1
        /\ req[r].fetched = 1
        /\ StoredRows = 0

====
